---- MODULE Spec2Model ----
(***************************************************************************)
(* A model of src/geo_utils.py: is_wkt, to_openeo_wkt and                  *)
(* geojson_to_shapefile, together with the parts of pathlib, the file      *)
(* system and the geometry library (shapely / geopandas) that decide what  *)
(* these three functions do.                                               *)
(*                                                                         *)
(* A file name is a sequence of tokens; the token "." is a dot and every   *)
(* other token is a non-empty run of characters without a dot, so that     *)
(* pathlib's character rules for suffix and stem carry over to tokens.     *)
(* A path is a sequence of names relative to the working directory; the    *)
(* empty path is the working directory itself (Path("."), Path("")).       *)
(***************************************************************************)
EXTENDS Naturals, Sequences, FiniteSets, TLC

\* Longest file name (in tokens) of the exhaustively enumerated paths.
MaxNameLen == 3
\* Longest text (in tokens) handed to is_wkt / to_openeo_wkt.
MaxTextLen == 2
\* Most features of a dataset read by to_openeo_wkt.
MaxFeatures == 2

SeqsUpTo(S, n) == UNION {[1..k -> S] : k \in 0..n}

(***************************************************************************)
(* pathlib                                                                 *)
(***************************************************************************)

\* PurePath.name: the final component, empty for the working directory.
name(p) == IF p = <<>> THEN <<>> ELSE p[Len(p)]

\* PurePath.parent: Path(".").parent is Path(".").
parent(p) == IF p = <<>> THEN <<>> ELSE SubSeq(p, 1, Len(p) - 1)

\* str.rfind("."), 1-based, 0 when there is no dot.
rfind_dot(n) ==
    LET D == {i \in 1..Len(n) : n[i] = "."}
    IN  IF D = {} THEN 0 ELSE CHOOSE i \in D : \A j \in D : j <= i

\* PurePath.suffix: from the last dot on, unless that dot is the first or
\* the last character of the name.
suffix(p) ==
    LET n == name(p)
        i == rfind_dot(n)
    IN  IF 1 < i /\ i < Len(n) THEN SubSeq(n, i, Len(n)) ELSE <<>>

\* PurePath.stem: the name without its suffix.
stem(p) ==
    LET n == name(p)
        i == rfind_dot(n)
    IN  IF 1 < i /\ i < Len(n) THEN SubSeq(n, 1, i - 1) ELSE n

\* str.lower on the tokens of the model.
lower(s) == [i \in 1..Len(s) |-> IF s[i] = "SHP" THEN "shp" ELSE s[i]]

\* The literal ".shp".
DotShp == <<".", "shp">>

\* PurePath.with_suffix(".shp"): ValueError for an empty name.
with_suffix(p, suf) ==
    IF name(p) = <<>>
    THEN [ok |-> FALSE, path |-> p, error |-> "ValueError"]
    ELSE [ok |-> TRUE, path |-> Append(parent(p), stem(p) \o suf),
          error |-> "none"]

\* Path(geojson_path) for an argument that is a Path object.
input_path_of(geojson_path) == geojson_path

\* A mutant of ResolveOutput: the .shp test is case-sensitive.
ResolveOutputCaseSensitive(input_path, shapefile_path) ==
    IF ~shapefile_path.given
    THEN with_suffix(input_path, DotShp)
    ELSE LET output_candidate == shapefile_path.path
         IN  IF suffix(output_candidate) = <<>>
             THEN [ok |-> TRUE,
                   path |-> Append(output_candidate, stem(input_path) \o DotShp),
                   error |-> "none"]
             ELSE IF suffix(output_candidate) # DotShp
             THEN with_suffix(output_candidate, DotShp)
             ELSE [ok |-> TRUE, path |-> output_candidate, error |-> "none"]

\* Lines 54-65: the destination of the conversion.
ResolveOutput(input_path, shapefile_path) ==
    IF ~shapefile_path.given
    THEN with_suffix(input_path, DotShp)
    ELSE LET output_candidate == shapefile_path.path
         IN  IF lower(suffix(output_candidate)) = <<>>
             THEN [ok |-> TRUE,
                   path |-> Append(output_candidate, stem(input_path) \o DotShp),
                   error |-> "none"]
             ELSE IF lower(suffix(output_candidate)) # DotShp
             THEN with_suffix(output_candidate, DotShp)
             ELSE [ok |-> TRUE, path |-> output_candidate, error |-> "none"]

(***************************************************************************)
(* The file system: a function from the paths that exist to their nodes.   *)
(* A shapefile and its sidecar files are one node at the .shp path.        *)
(***************************************************************************)

DirNode(ro) ==
    [kind |-> "dir", ro |-> ro, valid |-> FALSE, geoms |-> <<>>, crs |-> "none"]

FileNode(valid, geoms, crs) ==
    [kind |-> "file", ro |-> FALSE, valid |-> valid, geoms |-> geoms, crs |-> crs]

Put(f, p, node) == [q \in DOMAIN f \cup {p} |-> IF q = p THEN node ELSE f[q]]

is_dir(f, p) == p \in DOMAIN f /\ f[p].kind = "dir"

Prefix(p, k) == SubSeq(p, 1, k)

\* os.mkdir(q): the errno of the system call, or "ok".
os_mkdir(f, q) ==
    LET Bad == {j \in 0..(Len(q) - 1) : ~is_dir(f, Prefix(q, j))}
    IN  IF Bad # {}
        THEN LET j == CHOOSE i \in Bad : \A h \in Bad : i <= h
             IN  IF Prefix(q, j) \in DOMAIN f THEN "NotADirectoryError"
                 ELSE "FileNotFoundError"
        ELSE IF q \in DOMAIN f THEN "FileExistsError"
        ELSE IF f[parent(q)].ro THEN "PermissionError"
        ELSE "ok"

\* The order in which a directory lists its entries: a fixed total order
\* of the names (shorter first, then token by token).
TokenRank(t) ==
    CASE t = "." -> 1 [] t = "SHP" -> 2 [] t = "a" -> 3 [] t = "b" -> 4
      [] t = "bad" -> 5 [] t = "d" -> 6 [] t = "g" -> 7 [] t = "n" -> 8
      [] t = "o" -> 9 [] t = "shp" -> 10 [] t = "x" -> 11 [] t = "y" -> 12
      [] t = "z" -> 13 [] OTHER -> 14

RECURSIVE NameKey(_)
NameKey(n) ==
    IF n = <<>> THEN 0
    ELSE 16 * NameKey(SubSeq(n, 1, Len(n) - 1)) + TokenRank(n[Len(n)])

\* The shapefile layers of a directory opened as a data source.
Layers(f, p) ==
    {q \in DOMAIN f : /\ Len(q) = Len(p) + 1
                      /\ parent(q) = p
                      /\ f[q].kind = "file" /\ f[q].valid
                      /\ lower(suffix(q)) = DotShp}

NoFrame == [loaded |-> FALSE, geoms |-> <<>>, crs |-> "none"]

Frame(node) == [loaded |-> TRUE, geoms |-> node.geoms, crs |-> node.crs]

\* gpd.read_file(p): the dataset of a readable file, the first layer of a
\* directory of shapefiles, or the driver's error.
read_file(f, p) ==
    IF p \notin DOMAIN f
    THEN [ok |-> FALSE, gdf |-> NoFrame, error |-> "DriverError"]
    ELSE IF f[p].kind = "file"
    THEN IF f[p].valid
         THEN [ok |-> TRUE, gdf |-> Frame(f[p]), error |-> "none"]
         ELSE [ok |-> FALSE, gdf |-> NoFrame, error |-> "DriverError"]
    ELSE IF Layers(f, p) = {}
    THEN [ok |-> FALSE, gdf |-> NoFrame, error |-> "DriverError"]
    ELSE LET first == CHOOSE q \in Layers(f, p) :
                         \A r \in Layers(f, p) :
                             NameKey(name(q)) <= NameKey(name(r))
         IN  [ok |-> TRUE, gdf |-> Frame(f[first]), error |-> "none"]

\* pyproj.CRS.from_user_input: an EPSG integer and its authority string
\* name the same CRS; anything else is a CRSError.
from_user_input(crs) ==
    CASE crs = "int:4326" -> [ok |-> TRUE, crs |-> "EPSG:4326"]
      [] crs = "EPSG:4326" -> [ok |-> TRUE, crs |-> "EPSG:4326"]
      [] crs = "EPSG:3857" -> [ok |-> TRUE, crs |-> "EPSG:3857"]
      [] OTHER -> [ok |-> FALSE, crs |-> "none"]

\* A mutant of NeedsCrs: the override is applied whenever it is given.
NeedsCrsAlways(gdf, force_crs) == force_crs # "None"

\* Line 71: gdf.crs is None and force_crs is not None.
NeedsCrs(gdf, force_crs) == gdf.crs = "none" /\ force_crs # "None"

\* A mutant of to_file: an existing destination is not overwritten.
to_file_noclobber(f, p, gdf) ==
    IF ~is_dir(f, parent(p)) \/ p \in DOMAIN f
    THEN [ok |-> FALSE, fs |-> f, error |-> "DriverError"]
    ELSE IF f[parent(p)].ro
    THEN [ok |-> FALSE, fs |-> f, error |-> "PermissionError"]
    ELSE [ok |-> TRUE, fs |-> Put(f, p, FileNode(TRUE, gdf.geoms, gdf.crs)),
          error |-> "none"]

\* gdf.to_file(p, driver="ESRI Shapefile"): the file system afterwards, or
\* the driver's error.
to_file(f, p, gdf) ==
    IF ~is_dir(f, parent(p)) \/ is_dir(f, p)
    THEN [ok |-> FALSE, fs |-> f, error |-> "DriverError"]
    ELSE IF f[parent(p)].ro
    THEN [ok |-> FALSE, fs |-> f, error |-> "PermissionError"]
    ELSE [ok |-> TRUE, fs |-> Put(f, p, FileNode(TRUE, gdf.geoms, gdf.crs)),
          error |-> "none"]

(***************************************************************************)
(* shapely and geopandas, as is_wkt and to_openeo_wkt use them.  A text is *)
(* a sequence of tokens; a geometry is the set of cells it covers.         *)
(***************************************************************************)

Cells == {1, 2}

Regions == (SUBSET Cells) \ {{}}

\* Geometry.wkt of a region: one WKT text whatever the region.
to_wkt(region) ==
    CASE region = {1} -> <<"POLYGON", "(c1)">>
      [] region = {2} -> <<"POLYGON", "(c2)">>
      [] region = {1, 2} -> <<"MULTIPOLYGON", "(c1 c2)">>
      [] OTHER -> <<"GEOMETRYCOLLECTION", "EMPTY">>

\* The texts shapely parses as WKT.
ValidWkt == {<<"POINT", "(0 0)">>} \cup {to_wkt(r) : r \in SUBSET Cells}

\* shapely.wkt.loads: a geometry, or the parse error of the library
\* (WKTReadingError in shapely 1, GEOSException in shapely 2).
loads(text, l) ==
    IF text \in ValidWkt THEN [ok |-> TRUE, error |-> "none"]
    ELSE [ok |-> FALSE,
          error |-> IF l = "shapely1" THEN "WKTReadingError" ELSE "GEOSException"]

\* The classes that derive from Exception; KeyboardInterrupt and SystemExit
\* do not, and no library call of the model raises them.
ExceptionClasses ==
    {"WKTReadingError", "GEOSException", "DriverError", "AttributeError",
     "CRSError", "ValueError", "FileExistsError", "NotADirectoryError",
     "PermissionError", "FileNotFoundError", "WKTError"}

\* A mutant of CaughtByIsWkt: only shapely 1's parse error is caught.
CaughtOnlyReadingError(error) == error = "WKTReadingError"

\* Line 11: except Exception.
CaughtByIsWkt(error) == error \in ExceptionClasses

\* Lines 6-12: [ret, raised], raised = "none" when the call returns.
is_wkt(text, l) ==
    LET r == loads(text, l)
    IN  IF r.ok THEN [ret |-> TRUE, raised |-> "none"]
        ELSE IF CaughtByIsWkt(r.error) THEN [ret |-> FALSE, raised |-> "none"]
        ELSE [ret |-> FALSE, raised |-> r.error]

\* gdf.unary_union.wkt: the union of all geometries as one WKT text.  The
\* union of no geometry is an empty collection with shapely 2 and None
\* without it, and None has no attribute wkt.
unary_union_wkt(geoms, l) ==
    IF geoms = <<>>
    THEN IF l = "shapely2"
         THEN [ok |-> TRUE, text |-> to_wkt({}), error |-> "none"]
         ELSE [ok |-> FALSE, text |-> <<>>, error |-> "AttributeError"]
    ELSE [ok |-> TRUE,
          text |-> to_wkt(UNION {geoms[i] : i \in 1..Len(geoms)}),
          error |-> "none"]

\* exceptions.WKTError(e): the domain error, carrying its cause.
WKTError(e) == [kind |-> "WKTError", cause |-> e]

Uncaught(e) == [kind |-> e, cause |-> "none"]

NoError == [kind |-> "none", cause |-> "none"]

\* Lines 26-27: except Exception as e: raise WKTError(e).
except_str(e) == IF e \in ExceptionClasses THEN WKTError(e) ELSE Uncaught(e)

\* A mutant of except_path: only a missing file is translated.
except_path_narrow(e) == IF e = "FileNotFoundError" THEN WKTError(e) ELSE Uncaught(e)

\* Lines 32-33: except Exception as e: raise WKTError(e).
except_path(e) == IF e \in ExceptionClasses THEN WKTError(e) ELSE Uncaught(e)

\* The path a string names: the file of that name in the working
\* directory, and the working directory itself for "".
PathOfText(text) == IF text = <<>> THEN <<>> ELSE <<text>>

NoAoi == [kind |-> "none", text |-> <<>>, path |-> <<>>]

StrAoi(text) == [kind |-> "str", text |-> text, path |-> <<>>]

PathAoi(p) == [kind |-> "path", text |-> <<>>, path |-> p]

Unset == [kind |-> "unset", text |-> <<>>]

RetNone == [kind |-> "none", text |-> <<>>]

RetStr(text) == [kind |-> "str", text |-> text]

(***************************************************************************)
(* State                                                                   *)
(***************************************************************************)

\* Two invocations of geojson_to_shapefile, each in its own worker.
Calls == {1, 2}

VARIABLES
    fs,              \* the file system
    fs0,             \* the file system before any call (never changes)
    geojson_path,    \* per call: the first argument
    shapefile_path,  \* per call: [given, path], given = FALSE for None
    force_crs,       \* per call: "None", an EPSG integer or a string
    pc,              \* per call: the next line to run
    output_path,     \* per call: the local output_path
    gdf,             \* per call: the local gdf
    raised,          \* per call: the exception that left the call
    returned,        \* per call: [set, path], the value returned
    mk,              \* per call: where Path.mkdir's recursion stands
    steps,           \* per call: the lines run so far
    after,           \* per call: the other call had returned at entry
    lib,             \* the geometry library of the build
    aoi,             \* per to_openeo_wkt call: the argument
    wpc,             \* per to_openeo_wkt call: the next line to run
    wgdf,            \* per to_openeo_wkt call: the local gdf
    wret,            \* per to_openeo_wkt call: the value returned
    wraised,         \* per to_openeo_wkt call: the exception that left it
    reads,           \* per to_openeo_wkt call: calls of gpd.read_file
    checks,          \* per to_openeo_wkt call: calls of is_wkt
    probe            \* a direct call of is_wkt

wktVars == <<lib, aoi, wpc, wgdf, wret, wraised, reads, checks, probe>>

vars == <<fs, fs0, geojson_path, shapefile_path, force_crs, pc, output_path,
          gdf, raised, returned, mk, steps, after, wktVars>>

args == <<geojson_path, shapefile_path, force_crs>>

None == [given |-> FALSE, path |-> <<>>]

Some(p) == [given |-> TRUE, path |-> p]

Other(c) == 3 - c

(***************************************************************************)
(* geojson_to_shapefile, one action per line                               *)
(***************************************************************************)

\* A mutant of Fail: the error is wrapped the way to_openeo_wkt wraps.
FailWrapped(c, error, step) ==
    /\ pc' = [pc EXCEPT ![c] = "failed"]
    /\ raised' = [raised EXCEPT ![c] = "WKTError"]
    /\ steps' = [steps EXCEPT ![c] = Append(@, step)]

\* An exception leaves the call as it is: the function has no try.
Fail(c, error, step) ==
    /\ pc' = [pc EXCEPT ![c] = "failed"]
    /\ raised' = [raised EXCEPT ![c] = error]
    /\ steps' = [steps EXCEPT ![c] = Append(@, step)]

\* Lines 53-65.
Resolve(c) ==
    /\ pc[c] = "idle"
    /\ LET r == ResolveOutput(input_path_of(geojson_path[c]), shapefile_path[c])
       IN  IF r.ok
           THEN /\ output_path' = [output_path EXCEPT ![c] = r.path]
                /\ pc' = [pc EXCEPT ![c] = "mkdir"]
                /\ mk' = [mk EXCEPT ![c] = [k |-> Len(parent(r.path)),
                                            up |-> FALSE]]
                /\ steps' = [steps EXCEPT ![c] = Append(@, "resolve")]
                /\ raised' = raised
           ELSE /\ Fail(c, r.error, "resolve")
                /\ UNCHANGED <<output_path, mk>>
    /\ after' = [after EXCEPT ![c] = pc[Other(c)] = "done"]
    /\ UNCHANGED <<fs, fs0, args, gdf, returned, wktVars>>

\* A mutant of mkdir_fine: after making the parents the directory itself is
\* made with exist_ok=False.
mkdir_fine_racy(f, q, r, up) ==
    r = "ok" \/ (~up /\ r # "FileNotFoundError" /\ is_dir(f, q))

\* Path.mkdir's handlers with exist_ok=True: FileNotFoundError is never
\* swallowed, any other OSError exactly when the path is a directory.
mkdir_fine(f, q, r, up) ==
    r = "ok" \/ (r # "FileNotFoundError" /\ is_dir(f, q))

\* Line 67: output_path.parent.mkdir(parents=True, exist_ok=True), one
\* os.mkdir at a time.  Path.mkdir tries the directory itself, on
\* FileNotFoundError makes the parent first (parents=True) and then tries
\* again without parents; any other OSError is swallowed exactly when the
\* path is a directory (exist_ok=True).
MkdirStep(c) ==
    /\ pc[c] = "mkdir"
    /\ LET target == parent(output_path[c])
           k == mk[c].k
           q == Prefix(target, k)
           r == os_mkdir(fs, q)
           fine == mkdir_fine(fs, q, r, mk[c].up)
       IN  /\ fs' = IF r = "ok" THEN Put(fs, q, DirNode(FALSE)) ELSE fs
           /\ IF fine
              THEN IF k = Len(target)
                   THEN /\ pc' = [pc EXCEPT ![c] = "read"]
                        /\ steps' = [steps EXCEPT ![c] = Append(@, "mkdir")]
                        /\ UNCHANGED <<mk, raised>>
                   ELSE /\ mk' = [mk EXCEPT ![c] = [k |-> k + 1, up |-> TRUE]]
                        /\ UNCHANGED <<pc, steps, raised>>
              ELSE IF r = "FileNotFoundError" /\ ~mk[c].up /\ k > 0
              THEN /\ mk' = [mk EXCEPT ![c] = [k |-> k - 1, up |-> FALSE]]
                   /\ UNCHANGED <<pc, steps, raised>>
              ELSE /\ Fail(c, r, "mkdir")
                   /\ mk' = mk
    /\ UNCHANGED <<fs0, args, output_path, gdf, returned, after, wktVars>>

\* A mutant of Read: a failed read is tried again.
ReadRetry(c) ==
    /\ pc[c] = "read"
    /\ LET r == read_file(fs, input_path_of(geojson_path[c]))
       IN  IF r.ok
           THEN /\ gdf' = [gdf EXCEPT ![c] = r.gdf]
                /\ pc' = [pc EXCEPT ![c] = "set_crs"]
           ELSE UNCHANGED <<gdf, pc>>
    /\ steps' = [steps EXCEPT ![c] = Append(@, "read")]
    /\ UNCHANGED <<fs, fs0, args, output_path, returned, mk, after, raised, wktVars>>

\* Line 69.
Read(c) ==
    /\ pc[c] = "read"
    /\ LET r == read_file(fs, input_path_of(geojson_path[c]))
       IN  IF r.ok
           THEN /\ gdf' = [gdf EXCEPT ![c] = r.gdf]
                /\ pc' = [pc EXCEPT ![c] = "set_crs"]
                /\ steps' = [steps EXCEPT ![c] = Append(@, "read")]
                /\ raised' = raised
           ELSE /\ Fail(c, r.error, "read")
                /\ gdf' = gdf
    /\ UNCHANGED <<fs, fs0, args, output_path, returned, mk, after, wktVars>>

\* Lines 71-72.
SetCrs(c) ==
    /\ pc[c] = "set_crs"
    /\ IF NeedsCrs(gdf[c], force_crs[c])
       THEN LET r == from_user_input(force_crs[c])
            IN  IF r.ok
                THEN /\ gdf' = [gdf EXCEPT ![c].crs = r.crs]
                     /\ pc' = [pc EXCEPT ![c] = "write"]
                     /\ steps' = [steps EXCEPT ![c] = Append(@, "set_crs")]
                     /\ raised' = raised
                ELSE /\ Fail(c, "CRSError", "set_crs")
                     /\ gdf' = gdf
       ELSE /\ pc' = [pc EXCEPT ![c] = "write"]
            /\ UNCHANGED <<gdf, steps, raised>>
    /\ UNCHANGED <<fs, fs0, args, output_path, returned, mk, after, wktVars>>

\* Line 74.
Write(c) ==
    /\ pc[c] = "write"
    /\ LET r == to_file(fs, output_path[c], gdf[c])
       IN  IF r.ok
           THEN /\ fs' = r.fs
                /\ pc' = [pc EXCEPT ![c] = "return"]
                /\ steps' = [steps EXCEPT ![c] = Append(@, "write")]
                /\ raised' = raised
           ELSE /\ Fail(c, r.error, "write")
                /\ fs' = fs
    /\ UNCHANGED <<fs0, args, output_path, gdf, returned, mk, after, wktVars>>

\* Line 76.
Return(c) ==
    /\ pc[c] = "return"
    /\ returned' = [returned EXCEPT ![c] = Some(output_path[c])]
    /\ pc' = [pc EXCEPT ![c] = "done"]
    /\ steps' = [steps EXCEPT ![c] = Append(@, "return")]
    /\ UNCHANGED <<fs, fs0, args, output_path, gdf, raised, mk, after, wktVars>>

Next ==
    \E c \in Calls :
        \/ Resolve(c)
        \/ MkdirStep(c)
        \/ Read(c)
        \/ SetCrs(c)
        \/ Write(c)
        \/ Return(c)

(***************************************************************************)
(* to_openeo_wkt, one action per line, and a direct call of is_wkt.  The   *)
(* caller makes its two calls of to_openeo_wkt one after the other.        *)
(***************************************************************************)

WktFinished(w) == wpc[w] \in {"done", "raised"}

Entered(w) == wpc[w] = "start" /\ (w = 1 \/ WktFinished(1))

WktFrame == <<fs, fs0, args, pc, output_path, gdf, raised, returned, mk, steps,
              after, lib, aoi>>

\* Lines 16-17.
NoneCase(w) ==
    /\ Entered(w)
    /\ aoi[w].kind = "none"
    /\ wret' = [wret EXCEPT ![w] = RetNone]
    /\ wpc' = [wpc EXCEPT ![w] = "done"]
    /\ UNCHANGED <<WktFrame, wgdf, wraised, reads, checks, probe>>

\* A mutant of StrCase: the string is read as a file without the WKT check.
StrCaseUnchecked(w) ==
    /\ Entered(w)
    /\ aoi[w].kind = "str"
    /\ wpc' = [wpc EXCEPT ![w] = "read_str"]
    /\ UNCHANGED <<WktFrame, wgdf, wret, wraised, reads, checks, probe>>

\* Lines 19-22.
StrCase(w) ==
    /\ Entered(w)
    /\ aoi[w].kind = "str"
    /\ checks' = [checks EXCEPT ![w] = @ + 1]
    /\ LET r == is_wkt(aoi[w].text, lib)
       IN  IF r.raised # "none"
           THEN /\ wraised' = [wraised EXCEPT ![w] = Uncaught(r.raised)]
                /\ wpc' = [wpc EXCEPT ![w] = "raised"]
                /\ wret' = wret
           ELSE IF r.ret
           THEN /\ wret' = [wret EXCEPT ![w] = RetStr(aoi[w].text)]
                /\ wpc' = [wpc EXCEPT ![w] = "done"]
                /\ wraised' = wraised
           ELSE /\ wpc' = [wpc EXCEPT ![w] = "read_str"]
                /\ UNCHANGED <<wret, wraised>>
    /\ UNCHANGED <<WktFrame, wgdf, reads, probe>>

\* A mutant of PathCase: a path whose name is WKT is returned as that text.
PathCaseChecked(w) ==
    /\ Entered(w)
    /\ aoi[w].kind = "path"
    /\ checks' = [checks EXCEPT ![w] = @ + 1]
    /\ IF is_wkt(name(aoi[w].path), lib).ret
       THEN /\ wret' = [wret EXCEPT ![w] = RetStr(name(aoi[w].path))]
            /\ wpc' = [wpc EXCEPT ![w] = "done"]
       ELSE /\ wpc' = [wpc EXCEPT ![w] = "read_path"]
            /\ wret' = wret
    /\ UNCHANGED <<WktFrame, wgdf, wraised, reads, probe>>

\* Line 19, not a string: on to line 29.
PathCase(w) ==
    /\ Entered(w)
    /\ aoi[w].kind = "path"
    /\ wpc' = [wpc EXCEPT ![w] = "read_path"]
    /\ UNCHANGED <<WktFrame, wgdf, wret, wraised, reads, checks, probe>>

\* Line 24, with the handler of lines 26-27.
ReadStr(w) ==
    /\ wpc[w] = "read_str"
    /\ reads' = [reads EXCEPT ![w] = @ + 1]
    /\ LET r == read_file(fs, PathOfText(aoi[w].text))
       IN  IF r.ok
           THEN /\ wgdf' = [wgdf EXCEPT ![w] = r.gdf]
                /\ wpc' = [wpc EXCEPT ![w] = "union_str"]
                /\ wraised' = wraised
           ELSE /\ wraised' = [wraised EXCEPT ![w] = except_str(r.error)]
                /\ wpc' = [wpc EXCEPT ![w] = "raised"]
                /\ wgdf' = wgdf
    /\ UNCHANGED <<WktFrame, wret, checks, probe>>

\* Line 25, with the handler of lines 26-27.
UnionStr(w) ==
    /\ wpc[w] = "union_str"
    /\ LET r == unary_union_wkt(wgdf[w].geoms, lib)
       IN  IF r.ok
           THEN /\ wret' = [wret EXCEPT ![w] = RetStr(r.text)]
                /\ wpc' = [wpc EXCEPT ![w] = "done"]
                /\ wraised' = wraised
           ELSE /\ wraised' = [wraised EXCEPT ![w] = except_str(r.error)]
                /\ wpc' = [wpc EXCEPT ![w] = "raised"]
                /\ wret' = wret
    /\ UNCHANGED <<WktFrame, wgdf, reads, checks, probe>>

\* Line 30, with the handler of lines 32-33.
ReadPath(w) ==
    /\ wpc[w] = "read_path"
    /\ reads' = [reads EXCEPT ![w] = @ + 1]
    /\ LET r == read_file(fs, aoi[w].path)
       IN  IF r.ok
           THEN /\ wgdf' = [wgdf EXCEPT ![w] = r.gdf]
                /\ wpc' = [wpc EXCEPT ![w] = "union_path"]
                /\ wraised' = wraised
           ELSE /\ wraised' = [wraised EXCEPT ![w] = except_path(r.error)]
                /\ wpc' = [wpc EXCEPT ![w] = "raised"]
                /\ wgdf' = wgdf
    /\ UNCHANGED <<WktFrame, wret, checks, probe>>

\* Line 31, with the handler of lines 32-33.
UnionPath(w) ==
    /\ wpc[w] = "union_path"
    /\ LET r == unary_union_wkt(wgdf[w].geoms, lib)
       IN  IF r.ok
           THEN /\ wret' = [wret EXCEPT ![w] = RetStr(r.text)]
                /\ wpc' = [wpc EXCEPT ![w] = "done"]
                /\ wraised' = wraised
           ELSE /\ wraised' = [wraised EXCEPT ![w] = except_path(r.error)]
                /\ wpc' = [wpc EXCEPT ![w] = "raised"]
                /\ wret' = wret
    /\ UNCHANGED <<WktFrame, wgdf, reads, checks, probe>>

\* Lines 6-12, called directly.
IsWktCall ==
    /\ probe.pc = "idle"
    /\ LET r == is_wkt(probe.text, lib)
       IN  probe' = [probe EXCEPT !.pc = "done", !.ret = r.ret, !.raised = r.raised]
    /\ UNCHANGED <<WktFrame, wpc, wgdf, wret, wraised, reads, checks>>

NextWkt ==
    \/ IsWktCall
    \/ \E w \in Calls :
        \/ NoneCase(w)
        \/ StrCase(w)
        \/ PathCase(w)
        \/ ReadStr(w)
        \/ UnionStr(w)
        \/ ReadPath(w)
        \/ UnionPath(w)

(***************************************************************************)
(* Initial states                                                          *)
(***************************************************************************)

WktIdle(l, a, state, text, pstate) ==
    /\ lib = l
    /\ aoi = a
    /\ wpc = state
    /\ wgdf = [w \in Calls |-> NoFrame]
    /\ wret = [w \in Calls |-> Unset]
    /\ wraised = [w \in Calls |-> NoError]
    /\ reads = [w \in Calls |-> 0]
    /\ checks = [w \in Calls |-> 0]
    /\ probe = [text |-> text, pc |-> pstate, ret |-> FALSE, raised |-> "none"]

\* No call of is_wkt or to_openeo_wkt is made.
WktOff ==
    WktIdle("shapely2", [w \in Calls |-> NoAoi], [w \in Calls |-> "off"], <<>>, "off")

Idle(f, gp, sp, fc, state) ==
    /\ fs = f
    /\ fs0 = f
    /\ geojson_path = gp
    /\ shapefile_path = sp
    /\ force_crs = fc
    /\ pc = state
    /\ output_path = [c \in Calls |-> <<>>]
    /\ gdf = [c \in Calls |-> NoFrame]
    /\ raised = [c \in Calls |-> "none"]
    /\ returned = [c \in Calls |-> None]
    /\ mk = [c \in Calls |-> [k |-> 0, up |-> FALSE]]
    /\ steps = [c \in Calls |-> <<>>]
    /\ after = [c \in Calls |-> FALSE]

\* The names "", "." and ".." are no file names.
IsFileName(n) == n # <<>> /\ n # <<".">> /\ n # <<".", ".">>

InNames == {n \in SeqsUpTo({"a", "."}, MaxNameLen) : IsFileName(n)}

OutNames == {n \in SeqsUpTo({"a", ".", "shp", "SHP"}, MaxNameLen) : IsFileName(n)}

\* Every input path: the working directory, or a file name in it or in d/.
InputPaths == {<<>>} \cup {<<n>> : n \in InNames} \cup {<<<<"d">>, n>> : n \in InNames}

\* Every output: None, the working directory, any name in it, some nested.
OutputPaths ==
    {<<>>} \cup {<<n>> : n \in OutNames}
           \cup {<<<<"d">>, n>> : n \in {<<"a">>, <<"a", ".", "a">>, <<"a", ".", "SHP">>}}

GeomA == <<{1}>>

GeomB == <<{2}>>

\* The environments of the path enumeration: what the input holds, whether
\* the working directory is read-only, and the CRS override.
PathEnvs ==
    { [valid |-> TRUE,  crs |-> "none",      ro |-> FALSE, force |-> "int:4326"],
      [valid |-> TRUE,  crs |-> "EPSG:3857", ro |-> FALSE, force |-> "None"],
      [valid |-> FALSE, crs |-> "none",      ro |-> FALSE, force |-> "None"],
      [valid |-> TRUE,  crs |-> "none",      ro |-> FALSE, force |-> "bogus"],
      [valid |-> TRUE,  crs |-> "none",      ro |-> TRUE,  force |-> "None"] }

\* The file the input path reads: itself, or for the working directory the
\* shapefile a.shp in it.
DataFile(p) == IF p = <<>> THEN <<<<"a", ".", "shp">>>> ELSE p

RECURSIVE WithDirs(_, _)
\* f with every missing ancestor of p made a directory.
WithDirs(f, p) ==
    IF p = <<>> THEN f
    ELSE LET g == WithDirs(f, parent(p))
         IN  IF p \in DOMAIN g THEN g ELSE Put(g, p, DirNode(FALSE))

PathFs(p, e) ==
    Put(WithDirs(<<>> :> DirNode(e.ro), parent(DataFile(p))),
        DataFile(p), FileNode(e.valid, GeomA, e.crs))

\* One call, every input path against every output path.
InitPaths ==
    \E p \in InputPaths, o \in {None} \cup {Some(q) : q \in OutputPaths}, e \in PathEnvs :
        Idle(PathFs(p, e),
             [c \in Calls |-> p], [c \in Calls |-> o], [c \in Calls |-> e.force],
             [c \in Calls |-> IF c = 1 THEN "idle" ELSE "off"])
        /\ WktOff

SpecPaths == InitPaths /\ [][Next]_vars

\* The files of the concurrent runs.
FileA == <<<<"a", ".", "g">>>>

FileB == <<<<"b", ".", "g">>>>

FileBad == <<<<"bad", ".", "g">>>>

FileY == <<<<"y", ".", "shp">>>>

FileN == <<<<"n", ".", "shp">>>>

\* A working directory, writable or not, that holds a.g (no CRS), b.g and
\* y.shp (each with a CRS) and the corrupt bad.g.
ConcFs(ro) ==
    (<<>> :> DirNode(ro)) @@ (FileA :> FileNode(TRUE, GeomA, "none"))
        @@ (FileB :> FileNode(TRUE, GeomB, "EPSG:3857"))
        @@ (FileY :> FileNode(TRUE, GeomB \o GeomA, "EPSG:4326"))
        @@ (FileBad :> FileNode(FALSE, <<>>, "none"))

ConcInputs == {FileA, FileB, FileY, FileBad, <<>>}

ConcOutputs ==
    {None, Some(<<<<"o">>>>), Some(FileY), Some(FileN),
     Some(FileN \o <<<<"z", ".", "shp">>>>), Some(<<<<"o">>, <<"z">>>>)}

\* Two calls started concurrently, each with its own arguments.
Init ==
    \E ro \in BOOLEAN,
       gp \in [Calls -> ConcInputs],
       sp \in [Calls -> ConcOutputs],
       fc \in {f \in [Calls -> {"None", "int:4326", "bogus"}] : f[2] # "bogus"} :
        Idle(ConcFs(ro), gp, sp, fc, [c \in Calls |-> "idle"]) /\ WktOff

Spec == Init /\ [][Next]_vars

\* The texts handed to is_wkt and to_openeo_wkt.
Texts == SeqsUpTo({"POINT", "(0 0)", "a"}, MaxTextLen)

\* What the file named by the text holds: nothing, a corrupt file, or a
\* dataset of up to MaxFeatures geometries.
WktFiles ==
    {FileNode(FALSE, <<>>, "none")}
        \cup {FileNode(TRUE, g, "EPSG:4326") : g \in SeqsUpTo(Regions, MaxFeatures)}

\* No file of that name.
Absent == FileNode(FALSE, <<>>, "absent")

WktFs(text, file) ==
    IF text = <<>> \/ file = Absent THEN <<>> :> DirNode(FALSE)
    ELSE (<<>> :> DirNode(FALSE)) @@ (<<text>> :> file)

AoisOf(text) == {NoAoi, StrAoi(text), PathAoi(PathOfText(text))}

\* One text, given to is_wkt and, as nothing, a string or a path object, to
\* two calls of to_openeo_wkt; the file it names; the library of the build.
InitWkt ==
    \E text \in Texts, file \in WktFiles \cup {Absent}, l \in {"shapely1", "shapely2"} :
      \E a \in [Calls -> AoisOf(text)] :
        /\ Idle(WktFs(text, file),
                [c \in Calls |-> <<>>], [c \in Calls |-> None],
                [c \in Calls |-> "None"], [c \in Calls |-> "off"])
        /\ WktIdle(l, a, [w \in Calls |-> "start"], text, "idle")

SpecWkt == InitWkt /\ [][NextWkt]_vars

(***************************************************************************)
(* Properties of geojson_to_shapefile                                      *)
(***************************************************************************)

Finished(c) == pc[c] \in {"done", "failed"}

\* The call has a destination: lines 53-65 ran without raising.
Resolved(c) ==
    /\ pc[c] \notin {"off", "idle"}
    /\ ~(pc[c] = "failed" /\ steps[c] = <<"resolve">>)

IsPrefix(p, q) == Len(p) <= Len(q) /\ Prefix(q, Len(p)) = p

\* The four cases of the destination, the write at it and the return of it.
C4_Cases(c) ==
    LET inp == geojson_path[c]
        sp == shapefile_path[c]
        cand == sp.path
        dest == output_path[c]
    IN  /\ Resolved(c) =>
            /\ ~sp.given => dest = Append(parent(inp), stem(inp) \o DotShp)
            /\ (sp.given /\ suffix(cand) = <<>>) =>
                   dest = Append(cand, stem(inp) \o DotShp)
            /\ (sp.given /\ suffix(cand) # <<>> /\ lower(suffix(cand)) # DotShp) =>
                   dest = Append(parent(cand), stem(cand) \o DotShp)
            /\ (sp.given /\ lower(suffix(cand)) = DotShp) => dest = cand
        /\ pc[c] \in {"return", "done"} =>
            /\ dest \in DOMAIN fs
            /\ fs[dest] = FileNode(TRUE, gdf[c].geoms, gdf[c].crs)
            /\ \A q \in DOMAIN fs \ {dest} :
                   \/ q \in DOMAIN fs0 /\ fs[q] = fs0[q]
                   \/ fs[q] = DirNode(FALSE) /\ IsPrefix(q, parent(dest))
        /\ pc[c] = "done" => returned[c] = Some(dest)
        /\ returned[c].given => pc[c] = "done"

\* C4 as stated: the destination is resolved by the four cases, it is the
\* path written and the path returned, and in every case the returned
\* path's extension is .shp, compared case-insensitively.
C4_Original ==
    \A c \in Calls :
        /\ C4_Cases(c)
        /\ returned[c].given => lower(suffix(returned[c].path)) = DotShp

\* C4 amended: the same four cases, written path and returned path; the
\* returned path's extension is .shp whenever the input path has a file
\* name.  For an input without one (the working directory) no output given
\* raises ValueError before anything is resolved, and an output without
\* extension resolves to <output>/.shp, a dot-file without extension.
C4_Amended ==
    \A c \in Calls :
        /\ C4_Cases(c)
        /\ (returned[c].given /\ name(geojson_path[c]) # <<>>) =>
               lower(suffix(returned[c].path)) = DotShp
        /\ (name(geojson_path[c]) = <<>> /\ ~shapefile_path[c].given
                /\ pc[c] \notin {"off", "idle"}) =>
               pc[c] = "failed" /\ raised[c] = "ValueError" /\ fs = fs0
        /\ (name(geojson_path[c]) = <<>> /\ shapefile_path[c].given
                /\ suffix(shapefile_path[c].path) = <<>> /\ Resolved(c)) =>
               name(output_path[c]) = DotShp /\ suffix(output_path[c]) = <<>>

\* A call given o.SHP returned it as it is, and one given o.a had it
\* coerced: the witness takes the upper-case one.
C4_Witness ==
    /\ pc[1] = "done"
    /\ shapefile_path[1].given
    /\ suffix(shapefile_path[1].path) = <<".", "SHP">>
    /\ returned[1] = shapefile_path[1]
    /\ fs[returned[1].path].kind = "file"

\* C6: the override CRS is assigned exactly when the dataset read has no CRS
\* and an override is given; otherwise the dataset's CRS is kept, and the
\* geometries are kept in every case; what is written is that dataset.
C6_CrsRule ==
    [][\A c \in Calls :
        /\ (pc[c] = "read" /\ pc'[c] = "set_crs") =>
               gdf'[c] = read_file(fs, geojson_path[c]).gdf
        /\ (pc[c] = "set_crs" /\ pc'[c] = "write") =>
               /\ gdf'[c].geoms = gdf[c].geoms
               /\ gdf'[c].crs =
                      IF gdf[c].crs = "none" /\ force_crs[c] # "None"
                      THEN from_user_input(force_crs[c]).crs
                      ELSE gdf[c].crs
               /\ (steps'[c] # steps[c]) <=>
                      (gdf[c].crs = "none" /\ force_crs[c] # "None")
        /\ (pc[c] = "write" /\ pc'[c] = "return") =>
               fs'[output_path[c]] = FileNode(TRUE, gdf[c].geoms, gdf[c].crs)
      ]_vars

\* Both sides of C6 happened: a.g (no CRS) was written with the override,
\* b.g (EPSG:3857) was written with its own CRS although one was given.
C6_Witness ==
    /\ pc[1] = "done" /\ pc[2] = "done"
    /\ geojson_path[1] = FileA /\ force_crs[1] = "int:4326"
    /\ geojson_path[2] = FileB /\ force_crs[2] = "int:4326"
    /\ output_path[1] # output_path[2]
    /\ fs[output_path[1]].crs = "EPSG:4326"
    /\ fs[output_path[2]].crs = "EPSG:3857"

\* The errors each line's library call can raise.
LibraryErrors(step) ==
    CASE step = "resolve" -> {"ValueError"}
      [] step = "mkdir" -> {"FileExistsError", "NotADirectoryError",
                            "PermissionError", "FileNotFoundError"}
      [] step = "read" -> {"DriverError"}
      [] step = "set_crs" -> {"CRSError"}
      [] step = "write" -> {"DriverError", "PermissionError"}
      [] OTHER -> {}

\* C7: a failed call raised the library's own error of the line that
\* failed, never WKTError, and returned no path.
C7_NoTranslation ==
    \A c \in Calls :
        /\ raised[c] # "WKTError"
        /\ pc[c] = "failed" =>
               /\ steps[c] # <<>>
               /\ raised[c] \in LibraryErrors(steps[c][Len(steps[c])])
               /\ ~returned[c].given
        /\ pc[c] # "failed" => raised[c] = "none"

\* One call failed reading, the other assigning the CRS.
C7_Witness ==
    /\ pc[1] = "failed" /\ raised[1] = "CRSError"
    /\ pc[2] = "failed" /\ raised[2] = "DriverError"
    /\ steps[2][Len(steps[2])] = "read"

\* What call c does when it runs alone from the initial file system.
Dest(c) == ResolveOutput(input_path_of(geojson_path[c]), shapefile_path[c])

MkdirAloneOK(f, t) ==
    LET Have == {k \in 0..Len(t) : Prefix(t, k) \in DOMAIN f}
        top == CHOOSE k \in Have : \A h \in Have : h <= k
    IN  /\ \A k \in Have : is_dir(f, Prefix(t, k))
        /\ top = Len(t) \/ ~f[Prefix(t, top)].ro

AloneRead(c) == read_file(WithDirs(fs0, parent(Dest(c).path)), geojson_path[c])

AloneFrame(c) ==
    IF NeedsCrs(AloneRead(c).gdf, force_crs[c])
    THEN [AloneRead(c).gdf EXCEPT !.crs = from_user_input(force_crs[c]).crs]
    ELSE AloneRead(c).gdf

AloneOK(c) ==
    /\ Dest(c).ok
    /\ MkdirAloneOK(fs0, parent(Dest(c).path))
    /\ AloneRead(c).ok
    /\ NeedsCrs(AloneRead(c).gdf, force_crs[c]) => from_user_input(force_crs[c]).ok
    /\ to_file(WithDirs(fs0, parent(Dest(c).path)), Dest(c).path, AloneFrame(c)).ok

Expected(c) == FileNode(TRUE, AloneFrame(c).geoms, AloneFrame(c).crs)

\* C8 as stated: two concurrent calls with distinct output paths, each of
\* which would succeed on its own, both complete under every interleaving
\* and each destination ends up holding the dataset of its own input.
C8_Original ==
    (/\ \A c \in Calls : AloneOK(c) /\ Finished(c)
     /\ Dest(1).path # Dest(2).path)
    => \A c \in Calls :
           pc[c] = "done" /\ fs[output_path[c]] = Expected(c)

\* Nothing call c writes or creates is read by call d or in d's way.
Independent(c, d) ==
    /\ Dest(c).path # Dest(d).path
    /\ Dest(c).path # geojson_path[d]
    /\ parent(Dest(c).path) # geojson_path[d]
    /\ ~IsPrefix(Dest(c).path, Dest(d).path)

\* C8 amended: two concurrent calls, each of which would succeed on its own,
\* whose destinations are distinct, are not the other call's input or a file
\* in the other call's input directory, and do not lie one under the other:
\* under every interleaving neither call fails, racing on shared parent
\* directories included, and once a call is done its destination holds the
\* dataset of its own input.
C8_Amended ==
    (/\ \A c \in Calls : AloneOK(c) /\ pc[c] # "off"
     /\ Independent(1, 2) /\ Independent(2, 1))
    => \A c \in Calls :
           /\ pc[c] # "failed"
           /\ pc[c] = "done" =>
                  fs[output_path[c]] = Expected(c) /\ returned[c] = Some(Dest(c).path)

\* Both calls are done after racing on the creation of the shared parents
\* o/ and o/z/.
C8_Witness ==
    /\ pc[1] = "done" /\ pc[2] = "done"
    /\ geojson_path[1] = FileA /\ geojson_path[2] = FileB
    /\ parent(output_path[1]) = <<<<"o">>, <<"z">>>>
    /\ parent(output_path[2]) = <<<<"o">>, <<"z">>>>
    /\ mk[1].up /\ mk[2].up
    /\ output_path[1] # output_path[2]
    /\ ~after[1] /\ ~after[2]

SameArgs ==
    /\ geojson_path[1] = geojson_path[2]
    /\ shapefile_path[1] = shapefile_path[2]
    /\ force_crs[1] = force_crs[2]

\* C9: a second call made after the first has returned, with the same
\* arguments, does not fail, returns the same path and leaves the
\* destination with the geometries the first call left there.
C9_Idempotent ==
    \A c \in Calls :
        (pc[Other(c)] = "done" /\ after[c] /\ SameArgs) =>
            /\ pc[c] # "failed"
            /\ pc[c] = "done" =>
                   /\ returned[c] = returned[Other(c)]
                   /\ gdf[c].geoms = gdf[Other(c)].geoms
                   /\ fs[output_path[c]].kind = "file"
                   /\ fs[output_path[c]].valid
                   /\ fs[output_path[c]].geoms = gdf[Other(c)].geoms

\* The second of two identical calls in sequence is done.
C9_Witness ==
    /\ pc[1] = "done" /\ pc[2] = "done" /\ after[2] /\ SameArgs
    /\ geojson_path[1] = FileA /\ force_crs[1] = "int:4326"

Straight == <<"resolve", "mkdir", "read", "write", "return">>

StraightCrs == <<"resolve", "mkdir", "read", "set_crs", "write", "return">>

C10_StepsInOrder(c) ==
    \E full \in {Straight, StraightCrs} :
        Len(steps[c]) <= Len(full) /\ steps[c] = SubSeq(full, 1, Len(steps[c]))

\* The step of call c changed the file system as line 67 or line 74 may.
C10_Mutation(c) ==
    LET target == parent(output_path[c])
    IN  \/ /\ pc[c] = "mkdir"
           /\ \E k \in 0..Len(target) :
                  /\ Prefix(target, k) \notin DOMAIN fs
                  /\ fs' = Put(fs, Prefix(target, k), DirNode(FALSE))
        \/ /\ pc[c] = "write" /\ pc'[c] = "return"
           /\ steps[c] \in {<<"resolve", "mkdir", "read">>,
                            <<"resolve", "mkdir", "read", "set_crs">>}
           /\ \E node \in {FileNode(TRUE, gdf[c].geoms, gdf[c].crs)} :
                  fs' = Put(fs, output_path[c], node)

\* C10: the lines of a call run once each in the order resolve, mkdir,
\* read, optional CRS assignment, write, return; the file system changes
\* only by a directory created on the way to the destination or by the
\* final write at the destination; a call that failed reading or assigning
\* the CRS has its parent directories and has written nothing.
C10_StraightLine ==
    /\ [](\A c \in Calls :
            /\ C10_StepsInOrder(c)
            /\ (pc[c] = "failed" /\ steps[c] # <<>>
                    /\ steps[c][Len(steps[c])] \in {"read", "set_crs"}) =>
                   /\ is_dir(fs, parent(output_path[c]))
                   /\ pc[Other(c)] \in {"off", "idle"} =>
                          /\ output_path[c] \in DOMAIN fs <=> output_path[c] \in DOMAIN fs0
                          /\ output_path[c] \in DOMAIN fs =>
                                 fs[output_path[c]] = fs0[output_path[c]])
    /\ [][fs' # fs => \E c \in Calls : C10_Mutation(c)]_vars

\* A call failed at the CRS assignment after creating o/ and reading.
C10_Witness ==
    /\ pc[1] = "failed"
    /\ steps[1] = <<"resolve", "mkdir", "read", "set_crs">>
    /\ output_path[1] \notin DOMAIN fs
    /\ parent(output_path[1]) \notin DOMAIN fs0
    /\ pc[2] = "idle"

(***************************************************************************)
(* Properties of is_wkt and to_openeo_wkt                                  *)
(***************************************************************************)

\* The file a call of to_openeo_wkt would read.
AoiPath(w) == IF aoi[w].kind = "str" THEN PathOfText(aoi[w].text) ELSE aoi[w].path

\* The call takes the read-and-union branch: a path object, or a string
\* that is no WKT.
ReadsFile(w) ==
    \/ aoi[w].kind = "path"
    \/ aoi[w].kind = "str" /\ aoi[w].text \notin ValidWkt

\* C1: nothing, or a string that is WKT, comes back as it is, without a
\* read and without an error.
C1_Unchanged ==
    \A w \in Calls :
        (aoi[w].kind = "none" \/ (aoi[w].kind = "str" /\ aoi[w].text \in ValidWkt)) =>
            /\ reads[w] = 0
            /\ wgdf[w] = NoFrame
            /\ wraised[w] = NoError
            /\ wpc[w] \in {"off", "start", "done"}
            /\ wpc[w] = "done" =>
                   wret[w] = IF aoi[w].kind = "none" THEN RetNone
                             ELSE RetStr(aoi[w].text)
            /\ fs = fs0

\* "POINT (0 0)" came back although a file of that name exists, and the
\* call without an argument returned None.
C1_Witness ==
    /\ wpc[1] = "done" /\ aoi[1] = StrAoi(<<"POINT", "(0 0)">>)
    /\ wret[1] = RetStr(<<"POINT", "(0 0)">>)
    /\ <<<<"POINT", "(0 0)">>>> \in DOMAIN fs
    /\ wpc[2] = "done" /\ aoi[2] = NoAoi /\ wret[2] = RetNone

\* C2: a call of to_openeo_wkt that raises, raises WKTError, and the
\* WKTError carries the error the read or the union raised.
C2_OnlyWKTError ==
    \A w \in Calls :
        /\ wpc[w] # "raised" => wraised[w] = NoError
        /\ wpc[w] = "raised" =>
               /\ wraised[w].kind = "WKTError"
               /\ LET r == read_file(fs, AoiPath(w))
                  IN  wraised[w].cause =
                          IF r.ok THEN unary_union_wkt(r.gdf.geoms, lib).error
                          ELSE r.error
               /\ wraised[w].cause \in {"DriverError", "AttributeError"}
               /\ wret[w] = Unset

\* The same unreadable file raised WKTError as a string and as a path.
C2_Witness ==
    /\ wpc[1] = "raised" /\ aoi[1].kind = "str"
    /\ wpc[2] = "raised" /\ aoi[2].kind = "path"
    /\ wraised[1] = WKTError("DriverError")
    /\ wraised[2] = WKTError("DriverError")
    /\ AoiPath(2) \in DOMAIN fs

\* C3: is_wkt returns true exactly when the parse succeeds, false on every
\* parse failure, lets no exception out, and changes nothing but its result.
C3_NeverRaises ==
    /\ [](/\ probe.raised = "none"
          /\ probe.pc = "done" => (probe.ret <=> loads(probe.text, lib).ok)
          /\ \A w \in Calls :
                 /\ wraised[w].kind \notin {"WKTReadingError", "GEOSException"}
                 /\ (aoi[w].kind = "str" /\ wpc[w] \in {"read_str", "union_str"}) =>
                        ~loads(aoi[w].text, lib).ok)
    /\ [][probe' # probe =>
             UNCHANGED <<fs, fs0, args, pc, output_path, gdf, raised, returned, mk,
                         steps, after, lib, aoi, wpc, wgdf, wret, wraised, reads,
                         checks>>]_vars

\* is_wkt("") returned false with shapely 2.
C3_Witness ==
    /\ probe.pc = "done" /\ probe.text = <<>> /\ ~probe.ret
    /\ probe.raised = "none" /\ lib = "shapely2"

\* What C5 says of one call: the WKT check is made for a string only, the
\* file is read once.
C5_Reads(w) ==
    /\ aoi[w].kind = "path" => checks[w] = 0
    /\ (ReadsFile(w) /\ WktFinished(w)) => reads[w] = 1

\* The string branch and the path branch agree on the same file.
C5_BranchesAgree ==
    \A v, w \in Calls :
        (/\ WktFinished(v) /\ WktFinished(w)
         /\ aoi[v].kind = "str" /\ aoi[v].text \notin ValidWkt
         /\ aoi[w].kind = "path" /\ aoi[w].path = PathOfText(aoi[v].text))
        => wret[v] = wret[w] /\ wraised[v] = wraised[w] /\ wpc[v] = wpc[w]

\* C5 as stated: a path object or a string that is no WKT is always read,
\* and the result is the WKT text of the union of all geometries of the
\* dataset whatever the number of features; no WKT check for a path; both
\* branches agree.
C5_Original ==
    /\ C5_BranchesAgree
    /\ \A w \in Calls :
           /\ C5_Reads(w)
           /\ (ReadsFile(w) /\ WktFinished(w) /\ read_file(fs, AoiPath(w)).ok) =>
                  LET g == read_file(fs, AoiPath(w)).gdf.geoms
                  IN  /\ wpc[w] = "done"
                      /\ wret[w] = RetStr(to_wkt(UNION {g[i] : i \in 1..Len(g)}))

\* C5 amended: as stated for every dataset with at least one feature.  For
\* a dataset without features the result is the library's: the text of an
\* empty collection with shapely 2, and WKTError carrying AttributeError
\* without it; both branches agree there too.
C5_Amended ==
    /\ C5_BranchesAgree
    /\ \A w \in Calls :
           /\ C5_Reads(w)
           /\ (ReadsFile(w) /\ WktFinished(w) /\ read_file(fs, AoiPath(w)).ok) =>
                  LET g == read_file(fs, AoiPath(w)).gdf.geoms
                  IN  IF g # <<>>
                      THEN /\ wpc[w] = "done"
                           /\ wret[w] = RetStr(to_wkt(UNION {g[i] : i \in 1..Len(g)}))
                      ELSE IF lib = "shapely2"
                      THEN wpc[w] = "done" /\ wret[w] = RetStr(to_wkt({}))
                      ELSE /\ wpc[w] = "raised"
                           /\ wraised[w] = WKTError("AttributeError")

\* A file of two features named "POINT (0 0)" gave one MULTIPOLYGON as a
\* path object, while the string of that name came back as it is.
C5_Witness ==
    /\ wpc[1] = "done" /\ aoi[1] = PathAoi(<<<<"POINT", "(0 0)">>>>)
    /\ wret[1] = RetStr(to_wkt({1, 2}))
    /\ Len(fs[aoi[1].path].geoms) = 2
    /\ reads[1] = 1 /\ checks[1] = 0
    /\ wpc[2] = "done" /\ aoi[2] = StrAoi(<<"POINT", "(0 0)">>)

\* A string that is no WKT and the path of the same name both gave the
\* union of the two features of the file.
C5_WitnessBranches ==
    /\ wpc[1] = "done" /\ aoi[1] = StrAoi(<<"a">>)
    /\ wpc[2] = "done" /\ aoi[2] = PathAoi(<<<<"a">>>>)
    /\ wret[1] = RetStr(to_wkt({1, 2})) /\ wret[2] = wret[1]
    /\ Len(fs[<<<<"a">>>>].geoms) = 2

====
